---------------------------- MODULE Spec2Model ----------------------------
(***************************************************************************)
(* A model of the free-list allocator of @humanwhocodes/memory: the        *)
(* generic FreeList (src/src/free-list.js) driving a Cursor                *)
(* (src/src/cursor.js) over an ArrayBuffer.  The buffer is modelled byte   *)
(* by byte, block headers are 4-byte big-endian signed integers as         *)
(* DataView.getInt32/setInt32 read and write them, and every thrown error  *)
(* is an outcome of the operation that raised it.                          *)
(***************************************************************************)
EXTENDS Integers, Sequences, FiniteSets, TLC

(***************************************************************************)
(* Bounds of the model.                                                    *)
(***************************************************************************)
BufLen == 12      \* byteLength of the ArrayBuffer handed to the constructor
MaxCount == 6     \* largest byteCount passed to allocate()
MaxSrc == 6       \* largest underlying buffer of a typed array passed to write()
MaxWrites == 1    \* write() calls in one run
MaxOffset == 4    \* largest byteOffset passed to the constructor

(***************************************************************************)
(* Program constants.                                                      *)
(***************************************************************************)
HEADER_SIZE == 4
DefaultByteCount == 2          \* allocate(byteCount = 2): the smallest block

\* a byteCount taken as it is
NotRounded(byteCount) == byteCount

RoundUp(byteCount) == IF byteCount % 2 # 0 THEN byteCount + 1 ELSE byteCount

DataBytes == {0, 1}            \* byte values callers write
Counts == 0..MaxCount          \* byteCount arguments
Addrs == 0..(BufLen + HEADER_SIZE)   \* address arguments

VARIABLES
    buf,            \* the ArrayBuffer: a sequence of bytes, offset i at buf[i+1]
    bytePosition,   \* Cursor.bytePosition
    live,           \* addresses returned by allocate() and not freed since
    last,           \* the last call: operation, argument and outcome
    onlyAllocs,     \* TRUE while every call so far was allocate()
    granted,        \* while onlyAllocs: the sizes (header + even data) of the
                    \* blocks requested so far that fitted the buffer
    freed,          \* live addresses freed and not returned by allocate() since
    writes,         \* write() calls so far
    given,          \* the byteOffset and byteLength arguments of the constructor
    byteOffset,     \* FreeList.byteOffset
    byteLength      \* FreeList.byteLength

\* what the constructor sets and no operation changes
range == <<given, byteOffset, byteLength>>

vars == <<buf, bytePosition, live, last, onlyAllocs, granted, freed, writes,
          given, byteOffset, byteLength>>

-----------------------------------------------------------------------------
(***************************************************************************)
(* Outcomes.  err is "ok" or the error thrown; val is the returned number. *)
(***************************************************************************)
Ok(b, p, v) == [buf |-> b, pos |-> p, err |-> "ok", val |-> v, len |-> 0]

Throw(b, p, e) == [buf |-> b, pos |-> p, err |-> e, val |-> 0, len |-> 0]

\* a returned Uint8Array over the buffer: val is its byteOffset, len its length
View(b, p, off, n) == [buf |-> b, pos |-> p, err |-> "ok", val |-> off, len |-> n]

(***************************************************************************)
(* DataView over the whole buffer.                                         *)
(***************************************************************************)
\* DataView.getInt32/setInt32 throw a RangeError unless the 4 bytes lie in the view
InView(b, p) == p >= 0 /\ p + 4 <= Len(b)

\* big-endian, two's complement
getInt32(b, p) ==
    LET b0 == b[p + 1]
        hi == IF b0 >= 128 THEN b0 - 256 ELSE b0
    IN  hi * 16777216 + b[p + 2] * 65536 + b[p + 3] * 256 + b[p + 4]

setInt32(b, p, v) ==
    [i \in 1..Len(b) |->
        IF i = p + 1 THEN (v \div 16777216) % 256
        ELSE IF i = p + 2 THEN (v \div 65536) % 256
        ELSE IF i = p + 3 THEN (v \div 256) % 256
        ELSE IF i = p + 4 THEN v % 256
        ELSE b[i]]

\* TypedArray.prototype.set(source, offset) on a Uint8Array over the whole buffer
SetFits(b, source, offset) == offset + Len(source) <= Len(b)

TypedArraySet(b, source, offset) ==
    [i \in 1..Len(b) |->
        IF i > offset /\ i <= offset + Len(source) THEN source[i - offset] ELSE b[i]]

-----------------------------------------------------------------------------
(***************************************************************************)
(* Cursor getters (defined where the header at p lies in the view).        *)
(***************************************************************************)
size(b, p) == LET h == getInt32(b, p) IN h - (h % 2)

used(b, p) == getInt32(b, p) % 2

\* an address that forgets the header
addressOfHeader(p) == p

address(p) == p + HEADER_SIZE

dataSize(b, p) == IF size(b, p) # 0 THEN size(b, p) - HEADER_SIZE ELSE 0

allocated(b, p) == IF size(b, p) > 0 THEN 1 ELSE 0

hasNext(b, p) == size(b, p) > 0

-----------------------------------------------------------------------------
(***************************************************************************)
(* Typed arrays handed to write(): a view of byteLength bytes at           *)
(* byteOffset of an underlying buffer; isView is FALSE for a value that is *)
(* no typed array (such as {}).                                            *)
(***************************************************************************)
RECURSIVE SeqsOfLen(_)
SeqsOfLen(n) ==
    IF n = 0 THEN {<<>>}
    ELSE {Append(s, x) : s \in SeqsOfLen(n - 1), x \in DataBytes}

\* underlying buffers: every byte sequence that fits the smallest block, and
\* the buffers of up to MaxSrc bytes filled with one byte value
SrcBuffers ==
    UNION {SeqsOfLen(n) : n \in 0..DefaultByteCount}
        \cup {[i \in 1..n |-> x] : n \in 0..MaxSrc, x \in DataBytes}

TypedArray(buffer, off, n) ==
    [isView |-> TRUE, buffer |-> buffer, byteOffset |-> off, byteLength |-> n]

NotATypedArray ==
    [isView |-> FALSE, buffer |-> <<>>, byteOffset |-> 0, byteLength |-> 0]

\* the typed arrays over one underlying buffer that callers pass: the array
\* itself, subarray(0, 0) and subarray(1)
ViewsOf(buffer) ==
    {TypedArray(buffer, 0, Len(buffer)), TypedArray(buffer, 0, 0)}
        \cup (IF Len(buffer) > 0
              THEN {TypedArray(buffer, 1, Len(buffer) - 1)} ELSE {})

\* the bytes the typed array itself holds
ViewBytes(data) == SubSeq(data.buffer, data.byteOffset + 1,
                          data.byteOffset + data.byteLength)

\* new Uint8Array(n) for n >= 0: n zero bytes
ZeroArray(n) == TypedArray([i \in 1..n |-> 0], 0, n)

-----------------------------------------------------------------------------
(***************************************************************************)
(* Cursor operations: each takes the buffer and the cursor position and    *)
(* gives the buffer and position it leaves, and what it threw.             *)
(***************************************************************************)
Or1(x) == x - (x % 2) + 1

\* set data(value)
CursorSetData(b, p, value) ==
    IF ~InView(b, p) THEN Throw(b, p, "RangeError")
    ELSE IF used(b, p) = 0 THEN Throw(b, p, "NotAllocated")
    ELSE IF ~value.isView THEN Throw(b, p, "TypeMismatch")
    ELSE IF value.byteLength > dataSize(b, p) THEN Throw(b, p, "TooLarge")
    ELSE IF ~SetFits(b, value.buffer, address(p)) THEN Throw(b, p, "RangeError")
    ELSE Ok(TypedArraySet(b, value.buffer, address(p)), p, 0)

\* allocate() that does not test the used flag
CursorAllocateUnchecked(b, p, byteCount) ==
    IF ~InView(b, p) THEN Throw(b, p, "RangeError")
    ELSE IF p + HEADER_SIZE + RoundUp(byteCount) > Len(b)
         THEN Throw(b, p, "OutOfMemory")
    ELSE Ok(setInt32(b, p, Or1(HEADER_SIZE + RoundUp(byteCount))), p, 0)

CursorAllocate(b, p, byteCount) ==
    IF ~InView(b, p) THEN Throw(b, p, "RangeError")
    ELSE IF used(b, p) = 1 THEN Throw(b, p, "AlreadyInUse")
    ELSE IF p + HEADER_SIZE + RoundUp(byteCount) > Len(b)
         THEN Throw(b, p, "OutOfMemory")
    ELSE Ok(setInt32(b, p, Or1(HEADER_SIZE + RoundUp(byteCount))), p, 0)

\* use(): the header is written before the data is zeroed; new Uint8Array(n)
\* throws a RangeError for n < 0, and set() for an array that does not fit
CursorUse(b, p) ==
    IF ~InView(b, p) THEN Throw(b, p, "RangeError")
    ELSE IF used(b, p) = 1 THEN Throw(b, p, "AlreadyInUse")
    ELSE LET b1 == setInt32(b, p, Or1(size(b, p)))
             n  == dataSize(b1, p)
         IN  IF n < 0 \/ n > Len(b1) - address(p)
             THEN Throw(b1, p, "RangeError")
             ELSE CursorSetData(b1, p, ZeroArray(n))

\* free() that clears the flag without testing it
CursorFreeUnchecked(b, p) ==
    IF ~InView(b, p) THEN Throw(b, p, "RangeError")
    ELSE Ok(setInt32(b, p, size(b, p)), p, 0)

\* free() that also zeroes the data of the block
CursorFreeScrubbing(b, p) ==
    IF ~InView(b, p) THEN Throw(b, p, "RangeError")
    ELSE IF used(b, p) = 0 THEN Throw(b, p, "NotInUse")
    ELSE Ok([i \in 1..Len(b) |->
                IF i > address(p) /\ i <= p + size(b, p) THEN 0
                ELSE setInt32(b, p, size(b, p))[i]], p, 0)

CursorFree(b, p) ==
    IF ~InView(b, p) THEN Throw(b, p, "RangeError")
    ELSE IF used(b, p) = 0 THEN Throw(b, p, "NotInUse")
    ELSE Ok(setInt32(b, p, size(b, p)), p, 0)

CursorNext(b, p) ==
    IF ~InView(b, p) THEN Throw(b, p, "RangeError")
    ELSE IF size(b, p) = 0 THEN Throw(b, p, "EndOfList")
    ELSE IF size(b, p) > Len(b) - p THEN Throw(b, p, "OutOfMemory")
    ELSE Ok(b, p + size(b, p), 0)

\* a reset() that leaves the cursor where it is
CursorStays(p) == p

CursorReset(p) == 0

RECURSIVE FindFrom(_, _, _)
FindFrom(b, p, addr) ==
    IF address(p) < addr
    THEN IF ~InView(b, p) THEN Throw(b, p, "RangeError")
         ELSE IF hasNext(b, p)
              THEN LET n == CursorNext(b, p)
                   IN  IF n.err # "ok" THEN n ELSE FindFrom(b, n.pos, addr)
              ELSE Throw(b, p, "InvalidAddress")
    ELSE IF address(p) # addr THEN Throw(b, p, "InvalidAddress")
    ELSE Ok(b, p, 0)

CursorFindAddress(b, p, addr) == FindFrom(b, CursorReset(p), addr)

-----------------------------------------------------------------------------
(***************************************************************************)
(* FreeList operations.                                                    *)
(***************************************************************************)
\* the first-fit scan of allocate(): val is 1 when a block was found
RECURSIVE ScanFrom(_, _, _)
ScanFrom(b, p, byteCount) ==
    IF ~InView(b, p) THEN Throw(b, p, "RangeError")
    ELSE IF dataSize(b, p) >= byteCount /\ used(b, p) = 0 THEN Ok(b, p, 1)
    ELSE IF hasNext(b, p)
         THEN LET n == CursorNext(b, p)
              IN  IF n.err # "ok" THEN n ELSE ScanFrom(b, n.pos, byteCount)
    ELSE Ok(b, p, 0)

FreeListAllocate(b, p, byteCount) ==
    LET s == ScanFrom(b, CursorReset(p), byteCount)
    IN  IF s.err # "ok" THEN s
        ELSE IF s.val = 1
             THEN LET u == CursorUse(s.buf, s.pos)
                  IN  IF u.err # "ok" THEN u ELSE Ok(u.buf, u.pos, address(u.pos))
        ELSE LET a == CursorAllocate(s.buf, s.pos, byteCount)
             IN  IF a.err # "ok" THEN Ok(a.buf, a.pos, 0)
                 ELSE Ok(a.buf, a.pos, address(a.pos))

FreeListFree(b, p, addr) ==
    LET f == CursorFindAddress(b, p, addr)
    IN  IF f.err # "ok" THEN f ELSE CursorFree(f.buf, f.pos)

\* read(): this.address and this.dataSize are undefined on the list, so the
\* Uint8Array returned starts at offset 0 and runs to the end of the buffer
FreeListRead(b, p, addr) ==
    LET f == CursorFindAddress(b, p, addr)
    IN  IF f.err # "ok" THEN f
        ELSE IF ~InView(f.buf, f.pos) THEN Throw(f.buf, f.pos, "RangeError")
        ELSE IF used(f.buf, f.pos) = 0 THEN Throw(f.buf, f.pos, "NotAllocated")
        ELSE View(f.buf, f.pos, 0, Len(f.buf))

\* write() once findAddress(address) has put the cursor at p
WriteAt(b, p, addr, data) ==
    IF ~InView(b, p) THEN Throw(b, p, "RangeError")
    ELSE IF used(b, p) = 0 THEN Throw(b, p, "NotAllocated")
    ELSE IF ~data.isView THEN Throw(b, p, "TypeMismatch")
    ELSE IF data.byteLength > dataSize(b, p) THEN Throw(b, p, "TooLarge")
    ELSE IF ~SetFits(b, data.buffer, addr) THEN Throw(b, p, "RangeError")
    ELSE Ok(TypedArraySet(b, data.buffer, addr), p, 0)

FreeListWrite(b, p, addr, data) ==
    LET f == CursorFindAddress(b, p, addr)
    IN  IF f.err # "ok" THEN f ELSE WriteAt(f.buf, f.pos, addr, data)

\* an argument that was not passed, a property that was not set
Undefined == -1

\* a parameter's default value
Default(x, d) == IF x = Undefined THEN d ELSE x

\* a constructor that refuses a range ending exactly at the buffer's end
FreeListNewOffByOne(bufferLength, o, l) ==
    LET bo == Default(o, 0)
        bl == Default(l, bufferLength)
    IN  IF bo + bl >= bufferLength
        THEN [err |-> "InsufficientCapacity",
              byteOffset |-> Undefined, byteLength |-> Undefined]
        ELSE [err |-> "ok", byteOffset |-> bo, byteLength |-> bl]

\* new FreeList(cursor, buffer, byteOffset, byteLength) over a buffer of
\* bufferLength bytes: the capacity check, then the properties
FreeListNew(bufferLength, o, l) ==
    LET bo == Default(o, 0)
        bl == Default(l, bufferLength)
    IN  IF bo + bl > bufferLength
        THEN [err |-> "InsufficientCapacity",
              byteOffset |-> Undefined, byteLength |-> Undefined]
        ELSE [err |-> "ok", byteOffset |-> bo, byteLength |-> bl]

\* new DataView(buffer, byteOffset, byteLength)
DataViewNew(bufferLength, bo, bl) ==
    IF bo < 0 \/ bl < 0 \/ bo > bufferLength \/ bo + bl > bufferLength
    THEN "RangeError" ELSE "ok"

\* new ExplicitFreeList(buffer, byteOffset, byteLength), the stand-alone
\* list: the capacity check, the properties, then the DataView on the range
ExplicitFreeListNew(bufferLength, o, l) ==
    LET bo == Default(o, 0)
        bl == Default(l, bufferLength)
    IN  IF bo + bl > bufferLength
        THEN [err |-> "InsufficientCapacity",
              byteOffset |-> Undefined, byteLength |-> Undefined]
        ELSE [err |-> DataViewNew(bufferLength, bo, bl),
              byteOffset |-> bo, byteLength |-> bl]

(***************************************************************************)
(* The stand-alone ExplicitFreeList (src/src/explicit-free-list.js) on the *)
(* whole buffer.  Its ExplicitCursor has, line for line, the methods of    *)
(* Cursor, so the cursor operations above stand for both.                  *)
(***************************************************************************)
\* get data(): new Uint8Array(buffer, address, dataSize) throws a RangeError
\* unless the span lies in the buffer
CursorGetData(b, p) ==
    IF ~InView(b, p) THEN Throw(b, p, "RangeError")
    ELSE IF used(b, p) = 0 THEN Throw(b, p, "NotAllocated")
    ELSE IF dataSize(b, p) < 0 \/ dataSize(b, p) > Len(b) - address(p)
         THEN Throw(b, p, "RangeError")
    ELSE View(b, p, address(p), dataSize(b, p))

ExplicitFreeListAllocate(b, p, byteCount) ==
    LET s == ScanFrom(b, CursorReset(p), byteCount)
    IN  IF s.err # "ok" THEN s
        ELSE IF s.val = 1
             THEN LET u == CursorUse(s.buf, s.pos)
                  IN  IF u.err # "ok" THEN u ELSE Ok(u.buf, u.pos, address(u.pos))
        ELSE LET a == CursorAllocate(s.buf, s.pos, byteCount)
             IN  IF a.err # "ok" THEN Ok(a.buf, a.pos, 0)
                 ELSE Ok(a.buf, a.pos, address(a.pos))

ExplicitFreeListFree(b, p, addr) ==
    LET f == CursorFindAddress(b, p, addr)
    IN  IF f.err # "ok" THEN f ELSE CursorFree(f.buf, f.pos)

ExplicitFreeListRead(b, p, addr) ==
    LET f == CursorFindAddress(b, p, addr)
    IN  IF f.err # "ok" THEN f ELSE CursorGetData(f.buf, f.pos)

ExplicitFreeListWrite(b, p, addr, data) ==
    LET f == CursorFindAddress(b, p, addr)
    IN  IF f.err # "ok" THEN f ELSE CursorSetData(f.buf, f.pos, data)

\* the bytes a returned view shows
Bytes(b, off, n) == SubSeq(b, off + 1, off + n)

-----------------------------------------------------------------------------
(***************************************************************************)
(* The allocator as a state machine: one action per public operation.      *)
(***************************************************************************)
WriteArgs == {NotATypedArray} \cup UNION {ViewsOf(s) : s \in SrcBuffers}

\* the record of a call: its argument is kept when the call returned, and
\* wasLive tells that the call released an address that was live
Call(op, arg, r, wasLive) ==
    [op |-> op, arg |-> IF r.err = "ok" THEN arg ELSE 0,
     err |-> r.err, ret |-> r.val, len |-> r.len,
     wasLive |-> r.err = "ok" /\ wasLive]

Fits(total, byteCount) == total + HEADER_SIZE + RoundUp(byteCount) <= BufLen

Init ==
    /\ buf = [i \in 1..BufLen |-> 0]
    /\ bytePosition = 0
    /\ live = {}
    /\ last = [op |-> "new", arg |-> 0, err |-> "ok", ret |-> 0, len |-> 0,
               wasLive |-> FALSE]
    /\ onlyAllocs = TRUE
    /\ granted = 0
    /\ freed = {}
    /\ writes = 0
    /\ given = <<Undefined, Undefined>>
    /\ \E r \in {FreeListNew(BufLen, Undefined, Undefined)} :
           byteOffset = r.byteOffset /\ byteLength = r.byteLength

\* (each action binds the outcome r of its call once)
Allocate ==
    \E n \in Counts :
        \E r \in {FreeListAllocate(buf, bytePosition, n)} :
            /\ buf' = r.buf
            /\ bytePosition' = r.pos
            /\ live' = IF r.err = "ok" /\ r.val # 0 THEN live \cup {r.val} ELSE live
            /\ last' = Call("allocate", n, r, FALSE)
            /\ granted' = IF onlyAllocs /\ Fits(granted, n)
                          THEN granted + HEADER_SIZE + RoundUp(n) ELSE granted
            /\ freed' = IF r.err = "ok" THEN freed \ {r.val} ELSE freed
            /\ UNCHANGED <<onlyAllocs, writes, range>>

Free ==
    \E a \in Addrs :
        \E r \in {FreeListFree(buf, bytePosition, a)} :
            /\ buf' = r.buf
            /\ bytePosition' = r.pos
            /\ live' = IF r.err = "ok" THEN live \ {a} ELSE live
            /\ last' = Call("free", a, r, a \in live)
            /\ onlyAllocs' = FALSE
            /\ granted' = 0
            /\ freed' = IF r.err = "ok" /\ a \in live THEN freed \cup {a} ELSE freed
            /\ UNCHANGED <<writes, range>>

Read ==
    \E a \in Addrs :
        \E r \in {FreeListRead(buf, bytePosition, a)} :
            /\ buf' = r.buf
            /\ bytePosition' = r.pos
            /\ last' = Call("read", a, r, FALSE)
            /\ onlyAllocs' = FALSE
            /\ granted' = 0
            /\ UNCHANGED <<live, freed, writes, range>>

\* write() inspects its data only once the address is found and in use: for
\* any other address one argument stands for all
ArgsFor(a) ==
    IF FreeListWrite(buf, bytePosition, a, NotATypedArray).err = "TypeMismatch"
    THEN WriteArgs
    ELSE {NotATypedArray}

Write ==
    /\ writes < MaxWrites
    /\ \E a \in Addrs : \E data \in ArgsFor(a) :
        \E r \in {FreeListWrite(buf, bytePosition, a, data)} :
            /\ buf' = r.buf
            /\ bytePosition' = r.pos
            /\ last' = Call("write", a, r, FALSE)
            /\ onlyAllocs' = FALSE
            /\ granted' = 0
            /\ writes' = writes + 1
            /\ UNCHANGED <<live, freed, range>>

Next == Allocate \/ Free \/ Read \/ Write

Spec == Init /\ [][Next]_vars

-----------------------------------------------------------------------------
(***************************************************************************)
(* Construction: new FreeList(cursor, buffer, byteOffset, byteLength) over *)
(* zeroed buffers of every length up to BufLen, with and without the       *)
(* optional arguments.                                                     *)
(***************************************************************************)
BufferLengths == 0..BufLen
OffsetArgs == {Undefined} \cup 0..MaxOffset
LengthArgs == {Undefined} \cup 0..(BufLen + 1)

\* the record of a constructor call
Constructed(r) ==
    [op |-> "new", arg |-> 0, err |-> r.err, ret |-> 0, len |-> 0,
     wasLive |-> FALSE]

InitNew ==
    \E n \in BufferLengths, o \in OffsetArgs, l \in LengthArgs :
        \E r \in {FreeListNew(n, o, l)} :
            /\ buf = [i \in 1..n |-> 0]
            /\ bytePosition = 0
            /\ live = {}
            /\ last = Constructed(r)
            /\ onlyAllocs = TRUE
            /\ granted = 0
            /\ freed = {}
            /\ writes = 0
            /\ given = <<o, l>>
            /\ byteOffset = r.byteOffset
            /\ byteLength = r.byteLength

New ==
    \E n \in BufferLengths, o \in OffsetArgs, l \in LengthArgs :
        \E r \in {FreeListNew(n, o, l)} :
            /\ buf' = [i \in 1..n |-> 0]
            /\ last' = Constructed(r)
            /\ given' = <<o, l>>
            /\ byteOffset' = r.byteOffset
            /\ byteLength' = r.byteLength
            /\ UNCHANGED <<bytePosition, live, onlyAllocs, granted, freed, writes>>

NextNew == New

SpecNew == InitNew /\ [][NextNew]_vars

-----------------------------------------------------------------------------
(***************************************************************************)
(* A list constructed on a sub-range of its buffer.  The list keeps        *)
(* byteOffset and byteLength, and its cursor works on the DataView it was  *)
(* given: new DataView(buffer), the whole buffer.                          *)
(***************************************************************************)
RangeArgs == {<<o, BufLen - MaxOffset>> : o \in {0, MaxOffset}}

InitRange ==
    \E g \in RangeArgs :
        \E r \in {FreeListNew(BufLen, g[1], g[2])} :
            /\ r.err = "ok"
            /\ buf = [i \in 1..BufLen |-> 0]
            /\ bytePosition = 0
            /\ live = {}
            /\ last = Constructed(r)
            /\ onlyAllocs = TRUE
            /\ granted = 0
            /\ freed = {}
            /\ writes = 0
            /\ given = g
            /\ byteOffset = r.byteOffset
            /\ byteLength = r.byteLength

SpecRange == InitRange /\ [][Next]_vars

-----------------------------------------------------------------------------
(***************************************************************************)
(* The block chain, read off the buffer: the blocks are the headers with a *)
(* positive size met from offset 0, each one size bytes after the previous *)
(* one; the chain ends at the first offset that holds no such header.      *)
(***************************************************************************)
IsBlock(b, p) == InView(b, p) /\ size(b, p) > 0

RECURSIVE BlocksFrom(_, _)
BlocksFrom(b, p) ==
    IF ~IsBlock(b, p) THEN {}
    ELSE IF size(b, p) > Len(b) - p THEN {p}
    ELSE {p} \cup BlocksFrom(b, p + size(b, p))

Blocks(b) == BlocksFrom(b, 0)

RECURSIVE ChainEndFrom(_, _)
ChainEndFrom(b, p) ==
    IF ~IsBlock(b, p) \/ size(b, p) > Len(b) - p THEN p
    ELSE ChainEndFrom(b, p + size(b, p))

\* the offset at which the chain ends
ChainEnd(b) == ChainEndFrom(b, 0)

FreeBlocks(b) == {p \in Blocks(b) : used(b, p) = 0}

\* allocate(byteCount) can be satisfied: a free block is large enough, or the
\* chain ends at an unused position with room for the header and the data
Satisfiable(b, byteCount) ==
    \/ \E p \in FreeBlocks(b) : dataSize(b, p) >= byteCount
    \/ /\ ChainEnd(b) + HEADER_SIZE + RoundUp(byteCount) <= Len(b)
       /\ ~IsBlock(b, ChainEnd(b))
       /\ used(b, ChainEnd(b)) = 0

\* the data spans [a1, a1 + n1) and [a2, a2 + n2) share a byte
Overlap(a1, n1, a2, n2) == n1 > 0 /\ n2 > 0 /\ a1 < a2 + n2 /\ a2 < a1 + n1

\* dataSize of the block whose data starts at address a
DataSizeAt(b, a) == dataSize(b, a - HEADER_SIZE)

-----------------------------------------------------------------------------
\* C1: in every reachable state, an allocate(n) that cannot be satisfied
\* returns 0 and does not throw.
C1_UnsatisfiableAllocateReturnsZero ==
    \A n \in Counts :
        ~Satisfiable(buf, n) =>
            LET r == FreeListAllocate(buf, bytePosition, n)
            IN  r.err = "ok" /\ r.val = 0

\* C2: the data spans of two distinct live addresses are disjoint, and
\* allocate never returns an address that is live.
C2_LiveBlocksDisjoint ==
    /\ \A a1 \in live : \A a2 \in live \ {a1} :
           ~Overlap(a1, DataSizeAt(buf, a1), a2, DataSizeAt(buf, a2))
    /\ \A n \in Counts :
           LET r == FreeListAllocate(buf, bytePosition, n)
           IN  r.err = "ok" /\ r.val # 0 => r.val \notin live

\* C3: on an allocator that has only served allocate() calls, allocate(n)
\* returns 4 plus the sizes (header and even-rounded data) of the blocks
\* granted so far, an address greater than every earlier one, when the new
\* block fits in the buffer, and returns 0 when it does not.
C3_SequentialAddresses ==
    onlyAllocs =>
        \A n \in Counts :
            LET r == FreeListAllocate(buf, bytePosition, n)
            IN  /\ r.err = "ok"
                /\ IF Fits(granted, n)
                   THEN /\ r.val = HEADER_SIZE + granted
                        /\ \A a \in live : r.val > a
                   ELSE r.val = 0

\* the typed arrays write() accepts for a block of n data bytes
TypedArraysUpTo(n) == {d \in WriteArgs : d.isView /\ d.byteLength <= n}

\* C4: for a live address a and a typed array data of at most dataSize(a)
\* bytes, write(a, data) followed at once by read(a) returns the bytes of
\* data (as the leading bytes of the span read).
C4_WriteThenRead ==
    \A a \in live : \A data \in TypedArraysUpTo(DataSizeAt(buf, a)) :
        LET w == FreeListWrite(buf, bytePosition, a, data)
            r == FreeListRead(w.buf, w.pos, a)
        IN  /\ w.err = "ok"
            /\ r.err = "ok"
            /\ r.len >= data.byteLength
            /\ Bytes(r.buf, r.val, data.byteLength) = ViewBytes(data)

\* C5: read(a) on a live address a returns the span that starts at offset a
\* and has exactly dataSize(a) bytes.
C5_ReadSpan ==
    \A a \in live :
        LET r == FreeListRead(buf, bytePosition, a)
        IN  r.err = "ok" /\ r.val = a /\ r.len = DataSizeAt(buf, a)

\* C6: a successful write(a, data) changes no byte of the buffer outside
\* [a, a + data.byteLength), whatever typed array passed the size check.
C6_WriteFrame ==
    \A a \in Addrs : \A data \in ArgsFor(a) :
        LET w == FreeListWrite(buf, bytePosition, a, data)
        IN  w.err = "ok" =>
                \A i \in 0..(Len(buf) - 1) :
                    (i < a \/ i >= a + data.byteLength) => w.buf[i + 1] = buf[i + 1]

\* C7: when the last call freed the live block at a, allocate(n) with
\* n <= dataSize(a), no earlier free block holding n bytes, returns a and
\* leaves the chain as long as it was.
C7_ReuseFreedBlock ==
    (last.op = "free" /\ last.wasLive) =>
        \A n \in Counts :
            (/\ n <= DataSizeAt(buf, last.arg)
             /\ \A p \in FreeBlocks(buf) :
                    p < last.arg - HEADER_SIZE => dataSize(buf, p) < n) =>
                LET r == FreeListAllocate(buf, bytePosition, n)
                IN  /\ r.err = "ok"
                    /\ r.val = last.arg
                    /\ ChainEnd(r.buf) = ChainEnd(buf)

\* the data addresses of the blocks of the chain, the position at its end
\* included
BlockAddresses(b) == {address(p) : p \in Blocks(b) \cup {ChainEnd(b)}}

\* C8: free(addr) with addr = 0 or an addr that is no block's data address
\* fails with InvalidAddress and leaves the buffer unchanged.
C8_FreeInvalidAddress ==
    \A addr \in Addrs :
        (addr = 0 \/ addr \notin BlockAddresses(buf)) =>
            LET r == FreeListFree(buf, bytePosition, addr)
            IN  r.err = "InvalidAddress" /\ r.buf = buf

\* C9: free(a) on a block of the chain that is not in use fails with
\* NotInUse and leaves the buffer unchanged; after a free(a) that
\* succeeded, a second free(a) fails the same way.
C9_FreeNotInUse ==
    /\ \A p \in FreeBlocks(buf) :
           LET r == FreeListFree(buf, bytePosition, address(p))
           IN  r.err = "NotInUse" /\ r.buf = buf
    /\ (last.op = "free" /\ last.err = "ok") =>
           LET r == FreeListFree(buf, bytePosition, last.arg)
           IN  r.err = "NotInUse" /\ r.buf = buf

\* a free(a) has just failed with NotInUse while a freed block is in the chain
C9_Witness ==
    /\ last.op = "free"
    /\ last.err = "NotInUse"
    /\ freed # {}
    /\ \E p \in FreeBlocks(buf) : address(p) \in freed

\* the addresses that were freed, or never allocated: the position at the
\* end of the chain when its header is readable and zero
NotAllocatedAddresses ==
    freed \cup (IF InView(buf, ChainEnd(buf)) /\ getInt32(buf, ChainEnd(buf)) = 0
                THEN {address(ChainEnd(buf))} ELSE {})

\* C10: from free(a) until allocate returns a again, and for the address of
\* a position never allocated, read(a) and write(a, data) fail with
\* NotAllocated and the failing write leaves the buffer unchanged.
C10_FreedBlockNotAccessible ==
    \A a \in NotAllocatedAddresses :
        /\ FreeListRead(buf, bytePosition, a).err = "NotAllocated"
        /\ \A data \in WriteArgs :
               LET w == FreeListWrite(buf, bytePosition, a, data)
               IN  w.err = "NotAllocated" /\ w.buf = buf

\* C11: write(a, data) on a live block with data.byteLength > dataSize(a)
\* fails with TooLarge and leaves every byte of the buffer unchanged.
C11_WriteTooLarge ==
    \A a \in live : \A data \in WriteArgs :
        (data.isView /\ data.byteLength > DataSizeAt(buf, a)) =>
            LET w == FreeListWrite(buf, bytePosition, a, data)
            IN  w.err = "TooLarge" /\ w.buf = buf

\* C12: whenever a free block has dataSize >= n, or the chain ends at an
\* offset t with t + 4 + (n rounded up to even) <= byteLength, allocate(n)
\* returns a non-zero address: 0 is returned only when memory is exhausted.
C12_ZeroOnlyWhenExhausted ==
    \A n \in Counts :
        (\/ \E p \in FreeBlocks(buf) : dataSize(buf, p) >= n
         \/ ChainEnd(buf) + HEADER_SIZE + RoundUp(n) <= Len(buf)) =>
            LET r == FreeListAllocate(buf, bytePosition, n)
            IN  r.err = "ok" /\ r.val # 0

\* the offsets the cursor stands at: the blocks of the chain and its end
CursorPositions(b) == Blocks(b) \cup {ChainEnd(b)}

\* the operation with outcome r failed: it threw, or it is an allocate
\* that returned 0
Failed(r, isAllocate) == r.err # "ok" \/ (isAllocate /\ r.val = 0)

\* C13: every failing operation (allocate returning 0; free, read, write
\* or the cursor's allocate, use, free, next throwing) leaves every byte of
\* the buffer unchanged.
C13_FailureLeavesBuffer ==
    /\ \A n \in Counts :
           LET r == FreeListAllocate(buf, bytePosition, n)
           IN  Failed(r, TRUE) => r.buf = buf
    /\ \A a \in Addrs :
           /\ LET r == FreeListFree(buf, bytePosition, a)
              IN  Failed(r, FALSE) => r.buf = buf
           /\ LET r == FreeListRead(buf, bytePosition, a)
              IN  Failed(r, FALSE) => r.buf = buf
           /\ \A data \in ArgsFor(a) :
                  LET r == FreeListWrite(buf, bytePosition, a, data)
                  IN  Failed(r, FALSE) => r.buf = buf
    /\ \A p \in CursorPositions(buf) :
           /\ \A n \in Counts :
                  LET r == CursorAllocate(buf, p, n)
                  IN  Failed(r, FALSE) => r.buf = buf
           /\ LET r == CursorUse(buf, p) IN Failed(r, FALSE) => r.buf = buf
           /\ LET r == CursorFree(buf, p) IN Failed(r, FALSE) => r.buf = buf
           /\ LET r == CursorNext(buf, p) IN Failed(r, FALSE) => r.buf = buf

\* C14: every allocate that returns an address returns one >= 4, no block of
\* the chain has data address 0, and free(0), read(0) and write(0, data)
\* fail.
C14_AddressZeroReserved ==
    /\ \A n \in Counts :
           LET r == FreeListAllocate(buf, bytePosition, n)
           IN  (r.err = "ok" /\ r.val # 0) => r.val >= HEADER_SIZE
    /\ \A p \in CursorPositions(buf) : address(p) # 0
    /\ FreeListFree(buf, bytePosition, 0).err # "ok"
    /\ FreeListRead(buf, bytePosition, 0).err # "ok"
    /\ \A data \in ArgsFor(0) : FreeListWrite(buf, bytePosition, 0, data).err # "ok"

\* an allocate has just returned an address, and free(0) is refused as no
\* block's address
C14_Witness ==
    /\ last.op = "allocate"
    /\ last.err = "ok"
    /\ last.ret >= HEADER_SIZE
    /\ last.ret \in live
    /\ FreeListFree(buf, bytePosition, 0).err = "InvalidAddress"

\* C15: construction with (buffer, byteOffset, byteLength), byteOffset
\* defaulting to 0 and byteLength to buffer.byteLength, fails with the
\* capacity error exactly when byteOffset + byteLength > buffer.byteLength
\* and succeeds otherwise; the stand-alone list's constructor does the same.
C15_ConstructorCapacity ==
    last.op = "new" =>
        LET o == IF given[1] = Undefined THEN 0 ELSE given[1]
            l == IF given[2] = Undefined THEN Len(buf) ELSE given[2]
        IN  /\ last.err = (IF o + l > Len(buf) THEN "InsufficientCapacity" ELSE "ok")
            /\ last.err = "ok" => byteOffset = o /\ byteLength = l
            /\ ExplicitFreeListNew(Len(buf), given[1], given[2]).err = last.err

\* a construction with an offset and the default byteLength was refused
C15_Witness ==
    /\ last.op = "new"
    /\ last.err = "InsufficientCapacity"
    /\ given[1] > 0
    /\ given[2] = Undefined

\* the offsets at which the buffers b and c differ
Modified(b, c) == {i \in 0..(Len(b) - 1) : b[i + 1] # c[i + 1]}

\* the range [byteOffset, byteOffset + byteLength) the list manages
Managed == byteOffset..(byteOffset + byteLength - 1)

\* C16: for a list constructed with byteOffset o and byteLength l, every
\* byte that allocate, free and write modify lies in [o, o + l), and no
\* block extends past o + l.
C16_WithinManagedRange ==
    /\ \A n \in Counts :
           Modified(buf, FreeListAllocate(buf, bytePosition, n).buf) \subseteq Managed
    /\ \A a \in Addrs :
           /\ Modified(buf, FreeListFree(buf, bytePosition, a).buf) \subseteq Managed
           /\ \A data \in ArgsFor(a) :
                  Modified(buf, FreeListWrite(buf, bytePosition, a, data).buf)
                      \subseteq Managed
    /\ \A p \in Blocks(buf) : p + size(buf, p) <= byteOffset + byteLength

\* C17: a block returned by allocate has all the bytes of its data span,
\* dataSize of them, equal to zero when allocate returns.
C17_AllocatedBlockZeroed ==
    \A n \in Counts :
        LET r == FreeListAllocate(buf, bytePosition, n)
        IN  (r.err = "ok" /\ r.val # 0) =>
                \A i \in 0..(Len(r.buf) - 1) :
                    (i >= r.val /\ i < r.val + dataSize(r.buf, r.pos)) =>
                        r.buf[i + 1] = 0

\* what a caller observes of an outcome: the error or the returned value,
\* and the buffer
Observed(r) == [err |-> r.err, val |-> r.val, len |-> r.len, buf |-> r.buf]

\* C18: on equal buffers every allocate, free, read and write call gives
\* the same return value, the same error and the same buffer on the generic
\* FreeList and on the stand-alone ExplicitFreeList.
C18_ListsInterchangeable ==
    /\ \A n \in Counts :
           Observed(FreeListAllocate(buf, bytePosition, n))
               = Observed(ExplicitFreeListAllocate(buf, bytePosition, n))
    /\ \A a \in Addrs :
           /\ Observed(FreeListFree(buf, bytePosition, a))
                  = Observed(ExplicitFreeListFree(buf, bytePosition, a))
           /\ Observed(FreeListRead(buf, bytePosition, a))
                  = Observed(ExplicitFreeListRead(buf, bytePosition, a))
           /\ \A data \in ArgsFor(a) :
                  Observed(FreeListWrite(buf, bytePosition, a, data))
                      = Observed(ExplicitFreeListWrite(buf, bytePosition, a, data))

\* the free blocks that hold byteCount bytes
Fitting(b, byteCount) == {p \in FreeBlocks(b) : dataSize(b, p) >= byteCount}

\* the lowest offset of a non-empty set of offsets
Lowest(S) == CHOOSE p \in S : \A q \in S : p <= q

\* C19: when a free block with dataSize >= n exists, allocate(n) returns
\* the address of the lowest such block, marks that block and no other
\* used, and leaves the chain as long as it was; the chain grows, at its
\* end, only when no free block fits.
C19_FirstFit ==
    \A n \in Counts :
        LET r == FreeListAllocate(buf, bytePosition, n)
        IN  IF Fitting(buf, n) # {}
            THEN /\ r.err = "ok"
                 /\ r.val = address(Lowest(Fitting(buf, n)))
                 /\ ChainEnd(r.buf) = ChainEnd(buf)
                 /\ \A q \in Blocks(buf) :
                        used(r.buf, q) = IF q = Lowest(Fitting(buf, n)) THEN 1
                                         ELSE used(buf, q)
            ELSE (r.err = "ok" /\ r.val # 0) =>
                     /\ r.val = address(ChainEnd(buf))
                     /\ \A q \in Blocks(buf) :
                            getInt32(r.buf, q) = getInt32(buf, q)

\* the offsets of the headers allocate() wrote: those of the addresses it
\* returned
AllocatedHeaders == {a - HEADER_SIZE : a \in live \cup freed}

\* C20: in every reachable state the walk from offset 0, advancing by each
\* header's size, visits only headers written by allocate, every block ends
\* at or before byteLength, and the walk ends at a header of size 0.
C20_ChainWellFormed ==
    /\ Blocks(buf) \subseteq AllocatedHeaders
    /\ \A p \in Blocks(buf) : p + size(buf, p) <= Len(buf)
    /\ InView(buf, ChainEnd(buf))
    /\ size(buf, ChainEnd(buf)) = 0

\* C21: in every reachable state every header of the chain (its end
\* included) whose used flag is set has an even totalSize >= 4; no sequence
\* of operations, allocate(0) included, leaves a used header of size 0.
C21_UsedHeaderSized ==
    \A p \in CursorPositions(buf) :
        (InView(buf, p) /\ used(buf, p) = 1) =>
            size(buf, p) >= HEADER_SIZE /\ size(buf, p) % 2 = 0

\* the chain of c keeps every block of the chain of b at its offset and with
\* its totalSize, and has its other blocks at or after the end of b's chain
Extends(b, c) ==
    /\ \A p \in Blocks(b) : p \in Blocks(c) /\ size(c, p) = size(b, p)
    /\ \A p \in Blocks(c) \ Blocks(b) : p >= ChainEnd(b)

\* C22: a block, once created, keeps its offset and its dataSize and is
\* never removed: every allocate, free and write leaves the (offset,
\* totalSize) pairs of the chain as they were, but for blocks appended at the
\* end; a block that is used again is not split, and blocks that are freed
\* are not merged.
C22_BlocksPersist ==
    /\ \A n \in Counts : Extends(buf, FreeListAllocate(buf, bytePosition, n).buf)
    /\ \A a \in Addrs :
           /\ Extends(buf, FreeListFree(buf, bytePosition, a).buf)
           /\ \A data \in ArgsFor(a) :
                  Extends(buf, FreeListWrite(buf, bytePosition, a, data).buf)

\* C23: a free(a) that succeeds changes the used flag bit of the header of
\* block a from 1 to 0 and nothing else: the size bits of that header, the
\* data of the block and every other byte of the buffer stay as they were.
C23_FreeFrame ==
    \A a \in Addrs :
        LET r == FreeListFree(buf, bytePosition, a)
            p == a - HEADER_SIZE
        IN  r.err = "ok" =>
                /\ used(buf, p) = 1
                /\ used(r.buf, p) = 0
                /\ size(r.buf, p) = size(buf, p)
                /\ \A i \in 0..(Len(buf) - 1) :
                       i # p + HEADER_SIZE - 1 => r.buf[i + 1] = buf[i + 1]
                /\ r.buf[p + HEADER_SIZE] = buf[p + HEADER_SIZE] - 1

\* a live block that holds a non-zero byte has just been freed and still
\* holds it
C23_Witness ==
    /\ last.op = "free"
    /\ last.err = "ok"
    /\ last.wasLive
    /\ used(buf, last.arg - HEADER_SIZE) = 0
    /\ size(buf, last.arg - HEADER_SIZE) > HEADER_SIZE
    /\ \E i \in last.arg..(last.arg + DataSizeAt(buf, last.arg) - 1) :
           i < Len(buf) /\ buf[i + 1] # 0

-----------------------------------------------------------------------------
(***************************************************************************)
(* ImplicitCursor (src/src/implicit-free-list.js): the first cursor, on    *)
(* the same header layout; its position is byteOffset, its flag is         *)
(* `allocated`, and it has no checks but those of the DataView.            *)
(***************************************************************************)
ImplicitCursorSize(b, p) == LET h == getInt32(b, p) IN h - (h % 2)

ImplicitCursorAllocated(b, p) == getInt32(b, p) % 2

ImplicitCursorDataSize(b, p) == ImplicitCursorSize(b, p) - HEADER_SIZE

ImplicitCursorAllocate(b, p, byteCount) ==
    IF ~InView(b, p) THEN Throw(b, p, "RangeError")
    ELSE IF ImplicitCursorAllocated(b, p) = 1 THEN Throw(b, p, "AlreadyInUse")
    ELSE Ok(setInt32(b, p, Or1(HEADER_SIZE + RoundUp(byteCount))), p, 0)

\* free(): setInt32(byteOffset, this.size & 0), and x & 0 is 0
ImplicitCursorFree(b, p) ==
    IF ~InView(b, p) THEN Throw(b, p, "RangeError")
    ELSE Ok(setInt32(b, p, 0), p, 0)

ImplicitCursorNext(b, p) ==
    IF ~InView(b, p) THEN Throw(b, p, "RangeError")
    ELSE Ok(b, p + ImplicitCursorSize(b, p), 0)

\* the blocks of the chain that are in use
UsedBlocks(b) == {p \in Blocks(b) : used(b, p) = 1}

\* C24: in each cursor (Cursor, ExplicitCursor, which has Cursor's methods,
\* and ImplicitCursor) free() on a used block clears the used flag and
\* leaves size and dataSize as they were, so that next() still moves to the
\* block after it.
C24_CursorsFreeKeepSize ==
    \A p \in UsedBlocks(buf) :
        /\ LET r == CursorFree(buf, p)
           IN  /\ r.err = "ok"
               /\ used(r.buf, p) = 0
               /\ size(r.buf, p) = size(buf, p)
               /\ dataSize(r.buf, p) = dataSize(buf, p)
               /\ CursorNext(r.buf, p).err = CursorNext(buf, p).err
               /\ CursorNext(r.buf, p).pos = CursorNext(buf, p).pos
        /\ LET r == ImplicitCursorFree(buf, p)
           IN  /\ r.err = "ok"
               /\ ImplicitCursorAllocated(r.buf, p) = 0
               /\ ImplicitCursorSize(r.buf, p) = ImplicitCursorSize(buf, p)
               /\ ImplicitCursorDataSize(r.buf, p) = ImplicitCursorDataSize(buf, p)
               /\ ImplicitCursorNext(r.buf, p).pos = ImplicitCursorNext(buf, p).pos

\* the positions whose header the cursor can read and that are not in use
UnusedPositions(b) == {p \in CursorPositions(b) : InView(b, p) /\ used(b, p) = 0}

\* C25: Cursor.allocate(n) on a position that is not in use and where the
\* block fits stores totalSize 4 + n for an even n and 4 + n + 1 for an odd
\* n, with the used flag set: dataSize is even and >= n, and the size read
\* back is the size written (the flag bit is no size bit).
C25_AllocateStoresEvenSize ==
    \A p \in UnusedPositions(buf) : \A n \in Counts :
        LET total == IF n % 2 = 0 THEN HEADER_SIZE + n ELSE HEADER_SIZE + n + 1
            r == CursorAllocate(buf, p, n)
        IN  p + total <= Len(buf) =>
                /\ r.err = "ok"
                /\ getInt32(r.buf, p) = total + 1
                /\ size(r.buf, p) = total
                /\ used(r.buf, p) = 1
                /\ dataSize(r.buf, p) % 2 = 0
                /\ dataSize(r.buf, p) >= n
                /\ dataSize(r.buf, p) <= n + 1

\* the list's first allocate, of an odd byteCount, went through
\* Cursor.allocate and left a block of the next even dataSize
C25_Witness ==
    /\ onlyAllocs
    /\ last.op = "allocate"
    /\ last.err = "ok"
    /\ last.arg % 2 = 1
    /\ last.ret = HEADER_SIZE
    /\ live = {HEADER_SIZE}
    /\ DataSizeAt(buf, last.ret) = last.arg + 1
    /\ used(buf, 0) = 1

\* the positions of the cursor that hold no header in use
PositionsNotInUse(b) ==
    {p \in CursorPositions(b) : ~(InView(b, p) /\ used(b, p) = 1)}

\* C26: Cursor.allocate(n) at a position not in use fails with OutOfMemory
\* exactly when bytePosition + 4 + (n rounded up to even) > byteLength, and
\* then writes nothing; a request that fills the range to its last byte
\* succeeds.
C26_OutOfMemoryExactly ==
    \A p \in PositionsNotInUse(buf) : \A n \in Counts :
        LET even == IF n % 2 = 0 THEN n ELSE n + 1
            r == CursorAllocate(buf, p, n)
        IN  IF p + HEADER_SIZE + even > Len(buf)
            THEN r.err = "OutOfMemory" /\ r.buf = buf
            ELSE r.err = "ok"

\* the positions of the cursor that hold a header in use
PositionsInUse(b) == {p \in CursorPositions(b) : InView(b, p) /\ used(b, p) = 1}

C28_NextAndReset ==
    /\ \A p \in CursorPositions(buf) :
           LET r == CursorNext(buf, p)
           IN  IF p \in Blocks(buf)
               THEN r.err = "ok" /\ r.pos = p + size(buf, p) /\ r.buf = buf
               ELSE r.err = "EndOfList" /\ r.pos = p /\ r.buf = buf
    /\ bytePosition \in CursorPositions(buf)
    /\ CursorReset(bytePosition) = 0

\* C29: a cursor's `allocated` is 1 exactly when the current header has
\* size > 0: 0 on an unwritten position, 1 after allocate(), still 1 after
\* free() and after a later use(); `used` is the flag bit, 1 after allocate()
\* and use(), 0 after free().  Stated of Cursor and of ImplicitCursor.
C29_AllocatedIsSizePositive ==
    \A p \in CursorPositions(buf) :
        InView(buf, p) =>
            /\ allocated(buf, p) = (IF size(buf, p) > 0 THEN 1 ELSE 0)
            /\ \A n \in Counts :
                   LET a == ImplicitCursorAllocate(buf, p, n)
                       f == ImplicitCursorFree(a.buf, p)
                   IN  a.err = "ok" =>
                           /\ ImplicitCursorAllocated(a.buf, p) = 1
                           /\ ImplicitCursorAllocated(f.buf, p) = 1
            /\ getInt32(buf, p) = 0 => allocated(buf, p) = 0
            /\ \A n \in Counts :
                   LET r == CursorAllocate(buf, p, n)
                   IN  r.err = "ok" =>
                           allocated(r.buf, p) = 1 /\ used(r.buf, p) = 1
            /\ LET r == CursorFree(buf, p)
               IN  r.err = "ok" =>
                       /\ allocated(r.buf, p) = allocated(buf, p)
                       /\ used(r.buf, p) = 0
            /\ LET r == CursorUse(buf, p)
               IN  r.err = "ok" =>
                       /\ allocated(r.buf, p) = allocated(buf, p)
                       /\ used(r.buf, p) = 1

\* the error write(a, data) reports when its checks are made in order:
\* the address, the used flag, the kind of data, the length of data
FirstFailure(b, a, data) ==
    IF a \notin BlockAddresses(b) \/ ~InView(b, a - HEADER_SIZE)
    THEN "InvalidAddress"
    ELSE IF used(b, a - HEADER_SIZE) = 0 THEN "NotAllocated"
    ELSE IF ~data.isView THEN "TypeMismatch"
    ELSE IF data.byteLength > DataSizeAt(b, a) THEN "TooLarge"
    ELSE "ok"

\* C30: write(addr, data) makes its checks in a fixed order and reports the
\* first that fails: the address (InvalidAddress), the used flag
\* (NotAllocated), the kind of data (TypeMismatch), its length (TooLarge);
\* the buffer is modified only when all four pass.
C30_WriteCheckOrder ==
    \A a \in Addrs : \A data \in ArgsFor(a) :
        LET w == FreeListWrite(buf, bytePosition, a, data)
        IN  IF FirstFailure(buf, a, data) # "ok"
            THEN w.err = FirstFailure(buf, a, data) /\ w.buf = buf
            ELSE w.buf # buf => w.err = "ok"

-----------------------------------------------------------------------------
\* the offsets the cursor stands at, in order, during the scan loop of
\* allocate(byteCount) started at p
RECURSIVE ScanPath(_, _, _)
ScanPath(b, p, byteCount) ==
    IF ~InView(b, p) THEN <<p>>
    ELSE IF dataSize(b, p) >= byteCount /\ used(b, p) = 0 THEN <<p>>
    ELSE IF hasNext(b, p)
         THEN LET n == CursorNext(b, p)
              IN  IF n.err # "ok" THEN <<p>>
                  ELSE <<p>> \o ScanPath(b, n.pos, byteCount)
    ELSE <<p>>

\* the offsets the cursor stands at, in order, during the loop of
\* findAddress(addr) started at p
RECURSIVE FindPath(_, _, _)
FindPath(b, p, addr) ==
    IF address(p) < addr /\ InView(b, p) /\ hasNext(b, p)
    THEN LET n == CursorNext(b, p)
         IN  IF n.err # "ok" THEN <<p>> ELSE <<p>> \o FindPath(b, n.pos, addr)
    ELSE <<p>>

\* a walk that moves to a strictly greater offset at each step, leaves only
\* blocks of the chain, and stays at or before the offset end
Bounded(b, path, end) ==
    /\ \A i \in 1..(Len(path) - 1) : path[i] < path[i + 1] /\ path[i] \in Blocks(b)
    /\ \A i \in 1..Len(path) : path[i] >= 0 /\ path[i] <= end
    /\ Len(path) <= Cardinality(Blocks(b)) + 1

\* C31: in every reachable state the scan loops of allocate(n) and of
\* findAddress(addr) terminate: each iteration moves the cursor to a
\* strictly greater offset, no block is visited twice, and the cursor stops
\* at or before the end of the managed range, byteOffset + byteLength.
C31_ScansTerminate ==
    /\ \A n \in Counts :
           Bounded(buf, ScanPath(buf, CursorReset(bytePosition), n),
                   byteOffset + byteLength)
    /\ \A a \in Addrs :
           Bounded(buf, FindPath(buf, CursorReset(bytePosition), a),
                   byteOffset + byteLength)

\* C32: findAddress(addr) succeeds exactly when addr is p + 4 for an offset
\* p that starts a block of the chain or is the end of the chain, and then
\* leaves the cursor at p; for every other addr (0, an address in a header
\* or in a block's data, an address past the end of the chain) it fails
\* with InvalidAddress.
C32_FindAddressExact ==
    \A addr \in Addrs :
        LET r == CursorFindAddress(buf, bytePosition, addr)
        IN  IF addr \in BlockAddresses(buf)
            THEN r.err = "ok" /\ r.pos = addr - HEADER_SIZE
            ELSE r.err = "InvalidAddress"

\* the elements of a sequence
Range(s) == {s[i] : i \in 1..Len(s)}

\* the offsets whose header allocate(byteCount) inspects: every position of
\* its scan (dataSize and used are read at each)
AllocateInspects(b, byteCount) == Range(ScanPath(b, CursorReset(0), byteCount))

\* the offsets whose header free, read and write inspect for addr: the
\* positions where findAddress calls hasNext(), and the position found,
\* whose used flag is read
FindInspects(b, addr) ==
    {p \in Range(FindPath(b, CursorReset(0), addr)) : address(p) <= addr}

\* C33: no operation inspects a 4-byte header at an offset p with
\* p + 4 > byteLength: whenever allocate, free, read or write reads the
\* cursor's current header, p + 4 <= byteLength, also when the blocks fill
\* the range completely or to within 1 to 3 bytes of its end.
C33_HeaderReadsInRange ==
    /\ \A n \in Counts : \A p \in AllocateInspects(buf, n) : p + HEADER_SIZE <= Len(buf)
    /\ \A a \in Addrs : \A p \in FindInspects(buf, a) : p + HEADER_SIZE <= Len(buf)

\* C34: in every reachable state the positions of the chain whose used flag
\* is set are exactly those of the addresses allocate has returned and that
\* were not freed since: no block is used that was not returned to a caller,
\* and no returned block is free without a free() of its address.
C34_UsedIsLive ==
    {address(p) : p \in PositionsInUse(buf)} = live

\* the position of the cursor of a list that was just constructed
FreshPosition == 0

\* data arguments of each kind write() tells apart: no typed array, typed
\* arrays that fit the smallest block or do not, and views of a part of
\* their buffer
ProbeArgs == {NotATypedArray} \cup ViewsOf(<<1, 1>>) \cup ViewsOf(<<1, 1, 1>>)

\* C35: the outcome of every public operation (returned value, error,
\* buffer) depends on the buffer and the arguments only, not on where an
\* earlier operation left the shared cursor: wherever the cursor stands, the
\* next allocate, free, read or write gives what it gives on a list with the
\* same buffer whose cursor was never moved, so two lists with equal
\* buffers give equal outcomes.
C35_CursorPositionIrrelevant ==
    bytePosition # FreshPosition =>
        /\ \A n \in Counts :
               Observed(FreeListAllocate(buf, bytePosition, n))
                   = Observed(FreeListAllocate(buf, FreshPosition, n))
        /\ \A a \in Addrs :
               /\ Observed(FreeListFree(buf, bytePosition, a))
                      = Observed(FreeListFree(buf, FreshPosition, a))
               /\ Observed(FreeListRead(buf, bytePosition, a))
                      = Observed(FreeListRead(buf, FreshPosition, a))
               /\ \A data \in ArgsFor(a) \cap ProbeArgs :
                      Observed(FreeListWrite(buf, bytePosition, a, data))
                          = Observed(FreeListWrite(buf, FreshPosition, a, data))

\* a read has left the cursor past offset 0, and an allocate would now
\* reuse the first block of the chain, behind the cursor
C35_Witness ==
    /\ last.op = "read"
    /\ last.err = "ok"
    /\ bytePosition > 0
    /\ \E n \in Counts :
           LET r == FreeListAllocate(buf, bytePosition, n)
           IN  r.err = "ok" /\ r.val = HEADER_SIZE

=============================================================================
